---- MODULE Spec2Model ----
(***************************************************************************)
(* Issue response time report (issueResponseTime.js).                      *)
(*                                                                         *)
(* runAll walks REPOS; for each repository calculateFirstResponseTimes     *)
(* pages through the repository's issues (getAllIssues), fetches the       *)
(* comments of every community issue (getComments), builds one row per     *)
(* issue and a summary per repository; printAndSaveSummary receives the    *)
(* rows and the summaries of all repositories.                             *)
(*                                                                         *)
(* Representation.  A Date is the number of minutes since                  *)
(* 1970-01-01T00:00Z (JavaScript keeps milliseconds; the timestamps        *)
(* GitHub returns have no sub-second part and every comparison and         *)
(* subtraction of the program is the same on the coarser unit).  An        *)
(* ISO-8601 string is the record [y, m, d, hh, mi] of its fields (m is     *)
(* 1..12).  The string toFixed(2) returns is the number of hundredths it    *)
(* spells ("33.33" is 3333).  A value that may be null is Null or the      *)
(* one-element tuple <<v>> of the value.                                   *)
(***************************************************************************)
EXTENDS Integers, Sequences, FiniteSets, TLC

Null == << >>
Some(v) == << v >>
Val(x) == x[1]

(***************************************************************************)
(* Bounds of the model.                                                    *)
(***************************************************************************)
\* how many of the configured repositories a run walks
NumRepos == 2
\* how many issues one page holds at most (the query asks for 100)
PageSize == 2
\* how many issues the issue source serves in a run at most
MaxIssues == 3
\* how many comments an issue has at most
MaxComments == 2

(***************************************************************************)
(* Configuration: lines 26-74.                                             *)
(***************************************************************************)
AllRepos ==
    << [owner |-> "hiero-ledger", repo |-> "hiero-sdk-go"],
       [owner |-> "hiero-ledger", repo |-> "hiero-sdk-Swift"],
       [owner |-> "hiero-ledger", repo |-> "hiero-sdk-cpp"],
       [owner |-> "hiero-ledger", repo |-> "hiero-sdk-rust"],
       [owner |-> "hiero-ledger", repo |-> "hiero-sdk-java"],
       [owner |-> "hiero-ledger", repo |-> "hiero-sdk-js"],
       [owner |-> "hashgraph", repo |-> "hedera-docs"] >>

Min(a, b) == IF a <= b THEN a ELSE b

REPOS == SubSeq(AllRepos, 1, Min(NumRepos, Len(AllRepos)))

MAINTAINERS ==
    { "SimiHunjan", "ivaylonikolov7", "venilinvasilev", "andrewb1269hg",
      "0xivanov", "rwalworth", "naydenovn", "nickeynikolovv", "gsstoykov",
      "ivaylogarnev-limechain", "RickyLB", "theekrystallee", "Mark-Swirlds",
      "Neurone", "Reccetech", "kpachhai", "deshmukhpranali", "AliNik4n",
      "jaycoolh", "svienot", "rbarker-dev", "quiet-node", "hendrikebbers",
      "ericleponner", "mgarbs", "nathanklick", "Sheng-Long", "ed-marquez",
      "pathornteng", "steven-sheehy", "Dosik13" }

FROM_YEAR == 2025
FROM_MONTH == 2

(***************************************************************************)
(* The Date built-ins the program uses (proleptic Gregorian calendar).     *)
(***************************************************************************)
MinutesPerHour == 60
MinutesPerDay == 1440

\* days from 1970-01-01 to the civil date y-m-d
DaysFromCivil(y, m, d) ==
    LET yy  == IF m <= 2 THEN y - 1 ELSE y
        era == yy \div 400
        yoe == yy - era * 400
        mp  == IF m > 2 THEN m - 3 ELSE m + 9
        doy == (153 * mp + 2) \div 5 + d - 1
        doe == yoe * 365 + yoe \div 4 - yoe \div 100 + doy
    IN  era * 146097 + doe - 719468

\* the civil date of the day `days` after 1970-01-01
CivilFromDays(days) ==
    LET z   == days + 719468
        era == z \div 146097
        doe == z - era * 146097
        yoe == (doe - doe \div 1460 + doe \div 36524 - doe \div 146096) \div 365
        doy == doe - (365 * yoe + yoe \div 4 - yoe \div 100)
        mp  == (5 * doy + 2) \div 153
        d   == doy - (153 * mp + 2) \div 5 + 1
        m   == IF mp < 10 THEN mp + 3 ELSE mp - 9
        y   == yoe + era * 400 + (IF m <= 2 THEN 1 ELSE 0)
    IN  [y |-> y, m |-> m, d |-> d]

\* new Date(isoString)
ParseDate(iso) ==
    (DaysFromCivil(iso.y, iso.m, iso.d) * 24 + iso.hh) * MinutesPerHour + iso.mi

\* the UTC day a Date falls on, counted from 1970-01-01
UTCDayIndex(t) == t \div MinutesPerDay

\* date.toISOString()
ToISOString(t) ==
    LET c   == CivilFromDays(UTCDayIndex(t))
        rem == t % MinutesPerDay
    IN  [y |-> c.y, m |-> c.m, d |-> c.d,
         hh |-> rem \div MinutesPerHour, mi |-> rem % MinutesPerHour]

\* date.getUTCDay(): 0 = Sunday .. 6 = Saturday (1970-01-01 was a Thursday)
getUTCDay(t) == (UTCDayIndex(t) + 4) % 7

\* date.getUTCMonth(): 0 = January
getUTCMonth(t) == CivilFromDays(UTCDayIndex(t)).m - 1

\* date.getFullYear(): the year in the host's local time zone, `zone` minutes
\* east of UTC
getFullYear(t, zone) == CivilFromDays(UTCDayIndex(t + zone)).y

\* number.toFixed(2) of the non-negative number num / den: the hundredths
\* nearest to it, the larger when two are equally near
ToFixed2(num, den) == (2 * 100 * num + den) \div (2 * den)

(***************************************************************************)
(* BusinessTimeCalculator: lines 76-95.                                    *)
(***************************************************************************)
isBusinessDay(date) ==
    LET day == getUTCDay(date) IN day # 0 /\ day # 6

RECURSIVE BusinessDaysLoop(_, _, _)
\* the while loop of businessDaysBetween: `current` advances by one UTC day
\* and keeps the time of day of `start`
BusinessDaysLoop(current, end, count) ==
    IF current <= end
    THEN BusinessDaysLoop(current + MinutesPerDay, end,
                          IF isBusinessDay(current) THEN count + 1 ELSE count)
    ELSE count

businessDaysBetween(start, end) == BusinessDaysLoop(start, end, 0)

(***************************************************************************)
(* getAllIssues, the body of one page: lines 129-155.                      *)
(* A node of the issue source is [number, title, createdAt, author], with  *)
(* createdAt an ISO-8601 string and author Null or <<[login |-> string]>>. *)
(***************************************************************************)
\* issue.author?.login || "ghost"
AuthorLogin(node) ==
    IF node.author = Null \/ Val(node.author).login = "" THEN "ghost"
    ELSE Val(node.author).login

\* line 136: the issue is kept
InRange(year, month) == year = FROM_YEAR /\ month >= FROM_MONTH

\* lines 145-146: the issue is older than the date range
PastRange(year, month) ==
    year < FROM_YEAR \/ (year = FROM_YEAR /\ month < FROM_MONTH)

RECURSIVE ScanNodes(_, _, _, _)
\* the for loop over result.nodes (lines 131-152), from node i on: the issues
\* list and the value of hasNextPage when the loop is left
ScanNodes(nodes, i, acc, zone) ==
    IF i > Len(nodes) THEN [issues |-> acc, hasNextPage |-> TRUE]
    ELSE LET issue     == nodes[i]
             createdAt == ParseDate(issue.createdAt)
             year      == getFullYear(createdAt, zone)
             month     == getUTCMonth(createdAt)
         IN  IF InRange(year, month)
             THEN ScanNodes(nodes, i + 1,
                            Append(acc, [number     |-> issue.number,
                                         title      |-> issue.title,
                                         created_at |-> createdAt,
                                         author     |-> AuthorLogin(issue)]),
                            zone)
             ELSE IF PastRange(year, month)
                  THEN [issues |-> acc, hasNextPage |-> FALSE]
                  ELSE ScanNodes(nodes, i + 1, acc, zone)

\* lines 154-155 with the cursor left as it was
AfterPageSameCursor(scan, pageInfo) ==
    [issues      |-> scan.issues,
     hasNextPage |-> pageInfo.hasNextPage,
     cursor      |-> Null]

\* lines 154-155: what the loop condition reads next is the page's pageInfo,
\* whatever the for loop left in hasNextPage
AfterPage(scan, pageInfo) ==
    [issues      |-> scan.issues,
     hasNextPage |-> pageInfo.hasNextPage,
     cursor      |-> pageInfo.endCursor]

(***************************************************************************)
(* calculateFirstResponseTimes, the body of one issue: lines 177-211.      *)
(* A comment of the comment source is [user |-> [login], created_at].      *)
(***************************************************************************)
\* line 191 without the maintainer test: any comment of someone else counts
IsMaintainerResponseOfAnyone(commenter, author) == commenter # author

\* line 191
IsMaintainerResponse(commenter, author) ==
    commenter \in MAINTAINERS /\ commenter # author

RECURSIVE CommentLoop(_, _, _, _)
\* the for loop over comments (lines 188-199), from comment i on.
\* firstResponseTime is the number of hours num / den.
CommentLoop(comments, i, author, createdAt) ==
    IF i > Len(comments)
    THEN [firstResponseTime |-> Null, respondedIn48BusinessHours |-> Null]
    ELSE LET commenter == comments[i].user.login
         IN  IF IsMaintainerResponse(commenter, author)
             THEN LET commentedAt  == ParseDate(comments[i].created_at)
                      businessDays == businessDaysBetween(createdAt, commentedAt)
                  IN  [firstResponseTime |->
                           Some([num |-> commentedAt - createdAt,
                                 den |-> MinutesPerHour]),
                       respondedIn48BusinessHours |->
                           Some(IF businessDays <= 2 THEN "yes" ELSE "no")]
             ELSE CommentLoop(comments, i + 1, author, createdAt)

\* the condition of `firstResponseTime ? ... : null` (line 207): null and the
\* number 0 are falsy
Truthy(x) == x # Null /\ Val(x).num # 0

\* lines 201-211
MakeRow(repo, issue, comments) ==
    LET createdAt == issue.created_at
        author    == issue.author
        found     == CommentLoop(comments, 1, author, createdAt)
    IN  [repo         |-> repo,
         issue_number |-> issue.number,
         title        |-> issue.title,
         author       |-> author,
         created_at   |-> ToISOString(createdAt),
         first_response_time_hours |->
             IF Truthy(found.firstResponseTime)
             THEN Some(ToFixed2(Val(found.firstResponseTime).num,
                                Val(found.firstResponseTime).den))
             ELSE Null,
         responded_in_48_business_hours |-> found.respondedIn48BusinessHours]

(***************************************************************************)
(* calculateFirstResponseTimes, the summary: lines 214-236.                *)
(***************************************************************************)
\* the filter of line 217 left out: every row counts as responded
CountRespondedAll(results, i) == Len(results) - i + 1

RECURSIVE CountResponded(_, _)
\* results.filter(r => r.responded_in_48_business_hours !== null).length
CountResponded(results, i) ==
    IF i > Len(results) THEN 0
    ELSE (IF results[i].responded_in_48_business_hours # Null THEN 1 ELSE 0)
         + CountResponded(results, i + 1)

ResponseRate(responded, totalIssues) ==
    IF totalIssues = 0 THEN 10000
    ELSE ToFixed2(responded * 100, totalIssues)

Summary(repo, results) ==
    LET totalIssues == Len(results)
        responded   == CountResponded(results, 1)
    IN  [repo         |-> repo,
         totalIssues  |-> totalIssues,
         responded    |-> responded,
         responseRate |-> ResponseRate(responded, totalIssues)]

(***************************************************************************)
(* State.                                                                  *)
(***************************************************************************)
VARIABLES
    zone,            \* the host's time zone, in minutes east of UTC
    pc,              \* where the run is
    ri,              \* runAll: the position in REPOS of the for loop
    allResults,      \* runAll
    overallSummary,  \* runAll
    issues,          \* getAllIssues
    hasNextPage,     \* getAllIssues
    cursor,          \* getAllIssues
    pos,             \* calculateFirstResponseTimes: the position in issues
    results,         \* calculateFirstResponseTimes
    ret,             \* what calculateFirstResponseTimes returned
    sink,            \* what printAndSaveSummary was called with
    diagnostic,      \* whether the catch handler printed the error
    requests,        \* the cursors getAllIssues passed, in this call
    pages,           \* the replies of the issue source, in this call
    served,          \* how many issues the issue source served, in the run
    commentCalls,    \* the getComments calls of the run
    probe            \* a pure function applied on its own: input and result

vars == << zone, pc, ri, allResults, overallSummary, issues, hasNextPage,
           cursor, pos, results, ret, sink, diagnostic, requests, pages,
           served, commentCalls, probe >>

runAllVars == << ri, allResults, overallSummary, sink >>
getAllIssuesVars == << issues, hasNextPage, cursor >>
sourceVars == << requests, pages, served >>

(***************************************************************************)
(* The inputs: what the host and the two data sources can hand the run.    *)
(***************************************************************************)
Iso(y, m, d, hh, mi) == [y |-> y, m |-> m, d |-> d, hh |-> hh, mi |-> mi]

\* time zones of the host: New York (winter), UTC, Sofia (winter)
Zones == { -300, 0, 120 }

RunZones == { 0 }

\* creation times around the date range and around the turn of the years
Stamps ==
    { Iso(2026, 1, 5, 10, 0),      \* a year after FROM_YEAR
      Iso(2025, 3, 7, 15, 0),      \* in range, a Friday afternoon
      Iso(2025, 3, 1, 0, 30),      \* the first hour of the range
      Iso(2025, 2, 28, 23, 30),    \* the last hour before the range
      Iso(2024, 12, 31, 23, 0) }   \* the year before, 2025 already in Sofia

RunStamps == { Iso(2025, 3, 7, 15, 0), Iso(2025, 2, 28, 23, 30) }

Login(l) == Some([login |-> l])

Authors == { Login("octocat"), Login("SimiHunjan"), Null }

\* who comments: the community author, another user, two maintainers
Logins == { "octocat", "SimiHunjan", "rwalworth" }

\* how long after the issue a comment is made, in minutes: at once, six
\* hours, three days less six hours, three days, five days
Deltas == { 0, 360, 3960, 4320, 7200 }

RunLogins == { "octocat", "rwalworth" }

RunDeltas == { 360 }

\* the pages of `n` nodes the issue source can serve next, newest first
\* (orderBy CREATED_AT DESC, line 109), none newer than `newest`, numbered
\* from `base` + 1
NodeSeqs(stamps, authors, n, newest, base) ==
    { [i \in 1..n |-> [number    |-> base + i,
                       title     |-> "title",
                       createdAt |-> f[i][1],
                       author    |-> f[i][2]]] :
        f \in { g \in [1..n -> stamps \X authors] :
                  /\ \A i \in 1..n : ParseDate(g[i][1]) <= newest
                  /\ \A i \in 1..(n - 1) :
                        ParseDate(g[i + 1][1]) <= ParseDate(g[i][1]) } }

\* the comments the comment source can return for an issue, oldest first
CommentSeqs(logins, deltas, n, createdAt) ==
    { [i \in 1..n |-> [user       |-> [login |-> f[i][1]],
                       created_at |-> ToISOString(createdAt + f[i][2])]] :
        f \in { g \in [1..n -> logins \X deltas] :
                  \A i \in 1..(n - 1) : g[i][2] <= g[i + 1][2] } }

RECURSIVE Flatten(_, _)
\* the nodes of the replies i.. of a log of replies, in order
Flatten(log, i) ==
    IF i > Len(log) THEN << >> ELSE log[i].nodes \o Flatten(log, i + 1)

Last(s) == s[Len(s)]

\* the creation time of the last node served in this call
Newest(log) ==
    LET all == Flatten(log, 1)
    IN  IF all = << >> THEN ParseDate(Iso(2100, 1, 1, 0, 0))
        ELSE ParseDate(Last(all).createdAt)

(***************************************************************************)
(* Init: the state at line 280, before runAll's first statement.           *)
(***************************************************************************)
\* the state of a run that has reached `where` with nothing fetched yet
InitAt(zones, where) ==
    /\ zone \in zones
    /\ pc = where
    /\ ri = 1
    /\ allResults = << >>
    /\ overallSummary = << >>
    /\ issues = << >>
    /\ hasNextPage = TRUE
    /\ cursor = Null
    /\ pos = 1
    /\ results = << >>
    /\ ret = Null
    /\ sink = Null
    /\ diagnostic = FALSE
    /\ requests = << >>
    /\ pages = << >>
    /\ served = 0
    /\ commentCalls = << >>
    /\ probe = Null

\* the run as a whole is followed on a host in UTC
Init == InitAt(RunZones, "runAll")

(***************************************************************************)
(* runAll: lines 280-295.                                                  *)
(***************************************************************************)
\* the for loop takes the next repository and calls
\* calculateFirstResponseTimes, which calls getAllIssues (lines 284-289,
\* 173, 99-101)
RunAllNextRepo ==
    /\ pc = "runAll"
    /\ ri <= Len(REPOS)
    /\ pc' = "getAllIssues"
    /\ issues' = << >>
    /\ hasNextPage' = TRUE
    /\ cursor' = Null
    /\ requests' = << >>
    /\ pages' = << >>
    /\ UNCHANGED << zone, runAllVars, pos, results, ret, diagnostic, served,
                    commentCalls, probe >>

\* lines 289-291 with the rows put in front of those collected so far
RunAllCollectInFront ==
    /\ pc = "returned"
    /\ allResults' = Val(ret).rows \o allResults
    /\ overallSummary' = Append(overallSummary, Val(ret).summary)
    /\ ri' = ri + 1
    /\ pc' = "runAll"
    /\ UNCHANGED << zone, sink, getAllIssuesVars, pos, results, ret,
                    diagnostic, sourceVars, commentCalls, probe >>

\* the call returned: lines 289-291
RunAllCollect ==
    /\ pc = "returned"
    /\ allResults' = allResults \o Val(ret).rows
    /\ overallSummary' = Append(overallSummary, Val(ret).summary)
    /\ ri' = ri + 1
    /\ pc' = "runAll"
    /\ UNCHANGED << zone, sink, getAllIssuesVars, pos, results, ret,
                    diagnostic, sourceVars, commentCalls, probe >>

\* the loop is over: line 294
PrintAndSaveSummary ==
    /\ pc = "runAll"
    /\ ri > Len(REPOS)
    /\ sink' = Some([allResults |-> allResults,
                     overallSummary |-> overallSummary])
    /\ pc' = "done"
    /\ UNCHANGED << zone, ri, allResults, overallSummary, getAllIssuesVars,
                    pos, results, ret, diagnostic, sourceVars, commentCalls,
                    probe >>

\* the error caught inside the for loop of runAll: it is printed and the
\* loop goes on with the next repository
RejectedSkipsRepository ==
    /\ pc' = "runAll"
    /\ diagnostic' = TRUE
    /\ ri' = ri + 1
    /\ UNCHANGED << zone, allResults, overallSummary, sink, getAllIssuesVars,
                    pos, results, ret, probe >>

\* a rejected await leaves every function up to runAll, whose promise
\* rejects; the catch handler prints the error (lines 298-300)
Rejected ==
    /\ pc' = "failed"
    /\ diagnostic' = TRUE
    /\ UNCHANGED << zone, runAllVars, getAllIssuesVars, pos, results, ret,
                    probe >>

(***************************************************************************)
(* getAllIssues: lines 98-159.                                             *)
(***************************************************************************)
\* the number of the page a cursor asks for
PageAfter(c) == IF c = Null THEN 1 ELSE Val(c) + 1

\* one turn of the while loop: the request (lines 105-127) and the page's
\* body (lines 129-155).  The source serves a page of n nodes; a page that
\* has a next page is not empty.
FetchPage(stamps, authors) ==
    /\ pc = "getAllIssues"
    /\ hasNextPage
    /\ \E n \in 0..Min(PageSize, MaxIssues - served), more \in BOOLEAN :
         /\ more => n > 0 /\ served + n < MaxIssues
         /\ \E nodes \in NodeSeqs(stamps, authors, n, Newest(pages),
                                  Len(Flatten(pages, 1))) :
              LET pageInfo == [hasNextPage |-> more,
                               endCursor |-> IF n = 0 THEN Null
                                             ELSE Some(PageAfter(cursor))]
                  result   == [nodes |-> nodes, pageInfo |-> pageInfo]
                  after    == AfterPage(ScanNodes(nodes, 1, issues, zone),
                                        pageInfo)
              IN  /\ requests' = Append(requests, cursor)
                  /\ pages' = Append(pages, result)
                  /\ served' = served + n
                  /\ issues' = after.issues
                  /\ hasNextPage' = after.hasNextPage
                  /\ cursor' = after.cursor
    /\ UNCHANGED << zone, pc, runAllVars, pos, results, ret, diagnostic,
                    commentCalls, probe >>

\* the request fails: graphqlWithAuth rejects (line 105)
FetchPageFails ==
    /\ pc = "getAllIssues"
    /\ hasNextPage
    /\ requests' = Append(requests, cursor)
    /\ UNCHANGED << pages, served, commentCalls >>
    /\ Rejected

\* the while loop is over (line 158); calculateFirstResponseTimes goes on
\* (lines 173-176)
GetAllIssuesReturns ==
    /\ pc = "getAllIssues"
    /\ ~hasNextPage
    /\ pc' = "forIssues"
    /\ pos' = 1
    /\ results' = << >>
    /\ UNCHANGED << zone, runAllVars, getAllIssuesVars, ret, diagnostic,
                    sourceVars, commentCalls, probe >>

(***************************************************************************)
(* calculateFirstResponseTimes: lines 172-237.                             *)
(***************************************************************************)
\* line 181 without the test: no issue is skipped
IsCommunityIssueAlways(issue) == TRUE

\* line 181: the issue is not skipped
IsCommunityIssue(issue) == issue.author \notin MAINTAINERS

\* line 181: `continue`
SkipMaintainerIssue ==
    /\ pc = "forIssues"
    /\ pos <= Len(issues)
    /\ ~IsCommunityIssue(issues[pos])
    /\ pos' = pos + 1
    /\ UNCHANGED << zone, pc, runAllVars, getAllIssuesVars, results, ret,
                    diagnostic, sourceVars, commentCalls, probe >>

\* lines 183-211: the comments are fetched and the row is pushed
GetComments(logins, deltas) ==
    /\ pc = "forIssues"
    /\ pos <= Len(issues)
    /\ IsCommunityIssue(issues[pos])
    /\ \E n \in 0..MaxComments :
         \E comments \in CommentSeqs(logins, deltas, n, issues[pos].created_at) :
            results' = Append(results,
                              MakeRow(REPOS[ri].repo, issues[pos], comments))
    /\ commentCalls' = Append(commentCalls,
                              [repo |-> REPOS[ri].repo,
                               issue_number |-> issues[pos].number])
    /\ pos' = pos + 1
    /\ UNCHANGED << zone, pc, runAllVars, getAllIssuesVars, ret, diagnostic,
                    sourceVars, probe >>

\* octokit.issues.listComments rejects (line 163)
GetCommentsFails ==
    /\ pc = "forIssues"
    /\ pos <= Len(issues)
    /\ IsCommunityIssue(issues[pos])
    /\ commentCalls' = Append(commentCalls,
                              [repo |-> REPOS[ri].repo,
                               issue_number |-> issues[pos].number])
    /\ UNCHANGED sourceVars
    /\ Rejected

\* lines 214-236
Summarize ==
    /\ pc = "forIssues"
    /\ pos > Len(issues)
    /\ ret' = Some([rows |-> results,
                    summary |-> Summary(REPOS[ri].repo, results)])
    /\ pc' = "returned"
    /\ UNCHANGED << zone, runAllVars, getAllIssuesVars, pos, results,
                    diagnostic, sourceVars, commentCalls, probe >>

(***************************************************************************)
(* The run.                                                                *)
(***************************************************************************)
Next ==
    \/ RunAllNextRepo
    \/ FetchPage(RunStamps, Authors)
    \/ FetchPageFails
    \/ GetAllIssuesReturns
    \/ SkipMaintainerIssue
    \/ GetComments(RunLogins, RunDeltas)
    \/ GetCommentsFails
    \/ Summarize
    \/ RunAllCollect
    \/ PrintAndSaveSummary

Spec == Init /\ [][Next]_vars

(***************************************************************************)
(* getAllIssues on its own: the first call of a run, on a host in any of   *)
(* the zones, against a source whose requests succeed.                     *)
(***************************************************************************)
InitIssues == InitAt(Zones, "getAllIssues")

NextIssues ==
    \/ FetchPage(Stamps, Authors)
    \/ GetAllIssuesReturns

SpecIssues == InitIssues /\ [][NextIssues]_vars

(***************************************************************************)
(* The paging of getAllIssues: the same call, the issues told apart only   *)
(* by the side of the cutoff they are on.  The runtime runs the            *)
(* continuation of an await whose promise has settled, hence the fairness. *)
(***************************************************************************)
PagingStamps == { Iso(2025, 3, 7, 15, 0), Iso(2025, 2, 28, 23, 30) }

PagingAuthors == { Login("octocat") }

InitPaging == InitAt(Zones, "getAllIssues")

NextPaging ==
    \/ FetchPage(PagingStamps, PagingAuthors)
    \/ GetAllIssuesReturns

SpecPaging == InitPaging /\ [][NextPaging]_vars /\ WF_vars(NextPaging)

(***************************************************************************)
(* The pure functions on their own: the inputs are drawn and the function  *)
(* is applied.                                                             *)
(***************************************************************************)
InitPure == InitAt(RunZones, "pure")

\* the instants businessDaysBetween is applied to: a Friday to the Thursday
\* after it, in the morning and in the afternoon
Instants ==
    { ParseDate(Iso(2025, 3, d, hh, 0)) : d \in 7..13, hh \in { 9, 15 } }

ApplyBusinessDaysBetween ==
    /\ pc = "pure"
    /\ \E start \in Instants, end \in Instants :
         probe' = Some([start |-> start, end |-> end,
                        count |-> businessDaysBetween(start, end)])
    /\ pc' = "applied"
    /\ UNCHANGED << zone, runAllVars, getAllIssuesVars, pos, results, ret,
                    diagnostic, sourceVars, commentCalls >>

NextBusinessDays == ApplyBusinessDaysBetween

SpecBusinessDays == InitPure /\ [][NextBusinessDays]_vars

\* the issues the body of the for loop is applied to: getAllIssues pushed
\* them
CandidateIssues ==
    { [number     |-> 1,
       title      |-> "title",
       created_at |-> ParseDate(stamp),
       author     |-> login] :
        stamp \in { Iso(2025, 3, 7, 15, 0), Iso(2025, 3, 10, 9, 0) },
        login \in { "octocat", "ghost" } }

ApplyMakeRow ==
    /\ pc = "pure"
    /\ \E issue \in CandidateIssues, n \in 0..MaxComments :
         \E comments \in CommentSeqs(Logins, Deltas, n, issue.created_at) :
            probe' = Some([issue |-> issue, comments |-> comments,
                           row |-> MakeRow(REPOS[1].repo, issue, comments)])
    /\ pc' = "applied"
    /\ UNCHANGED << zone, runAllVars, getAllIssuesVars, pos, results, ret,
                    diagnostic, sourceVars, commentCalls >>

NextRow == ApplyMakeRow

SpecRow == InitPure /\ [][NextRow]_vars

(***************************************************************************)
(* The run: calculateFirstResponseTimes and runAll.                        *)
(***************************************************************************)
\* the position of a repository in REPOS
RepoIndex(name) == CHOOSE k \in DOMAIN REPOS : REPOS[k].repo = name

\* the rows of a list that belong to a repository, in the list's order
RowsOf(rows, name) == SelectSeq(rows, LAMBDA r : r.repo = name)

\* the nodes the issue source served in this call, in order
ServedNodes == Flatten(pages, 1)

IsMaintainerNode(node) ==
    node.author # Null /\ Val(node.author).login \in MAINTAINERS

\* C5: an issue whose author is a maintainer gets no row and is not counted
\* in totalIssues, so no row's author is a maintainer; an issue without an
\* author is recorded as "ghost" and gets a row.
C5_NoMaintainerRows ==
    /\ \A i \in DOMAIN results : results[i].author \notin MAINTAINERS
    /\ \A i \in DOMAIN allResults : allResults[i].author \notin MAINTAINERS
    /\ pc = "returned" =>
         LET rows == Val(ret).rows
         IN  /\ \A k \in DOMAIN ServedNodes :
                  IsMaintainerNode(ServedNodes[k]) =>
                     \A i \in DOMAIN rows :
                        rows[i].issue_number # ServedNodes[k].number
             /\ Val(ret).summary.totalIssues
                  = Cardinality({ k \in DOMAIN issues :
                                    issues[k].author \notin MAINTAINERS })
             /\ \A k \in DOMAIN ServedNodes :
                  /\ ServedNodes[k].author = Null
                  /\ \E j \in DOMAIN issues :
                        issues[j].number = ServedNodes[k].number
                  => \E i \in DOMAIN rows :
                        /\ rows[i].issue_number = ServedNodes[k].number
                        /\ rows[i].author = "ghost"

\* C5: a call returned that was served a maintainer's issue and an issue
\* without an author, both in range
C5_Witness ==
    /\ pc = "returned"
    /\ \E j \in DOMAIN issues : issues[j].author \in MAINTAINERS
    /\ \E i \in DOMAIN Val(ret).rows : Val(ret).rows[i].author = "ghost"

\* C7: the summary is derived from the repository's rows: totalIssues is the
\* number of rows, responded the number of rows with an SLA classification
\* (so responded <= totalIssues), responseRate "100.00" with no row and
\* otherwise responded / totalIssues * 100 to the nearest hundredth.
C7_SummaryFromRows ==
    /\ pc = "returned" =>
         LET rows == Val(ret).rows
             sum  == Val(ret).summary
         IN  /\ rows = results
             /\ sum.repo = REPOS[ri].repo
             /\ sum.totalIssues = Len(rows)
             /\ sum.responded
                  = Cardinality({ i \in DOMAIN rows :
                                    rows[i].responded_in_48_business_hours # Null })
             /\ sum.responded <= sum.totalIssues
             /\ sum.totalIssues = 0 => sum.responseRate = 10000
             /\ sum.totalIssues > 0 =>
                  LET err == sum.responseRate * sum.totalIssues
                               - 10000 * sum.responded
                  IN  2 * err <= sum.totalIssues /\ -2 * err < sum.totalIssues
    /\ \A k \in DOMAIN overallSummary :
         /\ overallSummary[k].totalIssues
              = Len(RowsOf(allResults, overallSummary[k].repo))
         /\ overallSummary[k].responded
              = Len(SelectSeq(RowsOf(allResults, overallSummary[k].repo),
                              LAMBDA r : r.responded_in_48_business_hours # Null))

\* C7: three rows of which one has a response: the rate is "33.33"
C7_Witness ==
    /\ pc = "returned"
    /\ Val(ret).summary.totalIssues = 3
    /\ Val(ret).summary.responded = 1
    /\ Val(ret).summary.responseRate = 3333

\* C8: once a fetch of issues or comments has failed the run is over: no
\* step follows (no later repository, no further request), the report sink
\* has not been and is not invoked, and the error has been printed; the
\* sink is only ever invoked with the summaries of all repositories.
C8_FailureStopsRun ==
    /\ [](pc = "failed" => sink = Null /\ diagnostic /\ ri <= Len(REPOS)
                            /\ Len(overallSummary) = ri - 1)
    /\ [](sink # Null => ~diagnostic /\ Len(Val(sink).overallSummary) = Len(REPOS))
    /\ [](diagnostic => pc = "failed")
    /\ [][pc # "failed"]_vars

\* C8: the comments of an issue of the first repository could not be
\* fetched after a row had been made; other repositories remain
C8_Witness ==
    /\ pc = "failed"
    /\ ri < Len(REPOS)
    /\ Len(results) > 0
    /\ Len(commentCalls) > Len(results)

\* C9: the repositories are analysed one at a time in the order of REPOS:
\* while repository ri is analysed exactly those before it have been
\* collected, the summaries are those of REPOS in order, the rows are the
\* rows of the repositories in that order, each repository's rows in the
\* order its issues were traversed, and comments are fetched in that order,
\* once per issue; at the end there is one summary per repository and the
\* sink received both lists.
C9_SequentialInOrder ==
    /\ Len(overallSummary) = ri - 1
    /\ \A k \in DOMAIN overallSummary : overallSummary[k].repo = REPOS[k].repo
    /\ \A i \in DOMAIN allResults :
         RepoIndex(allResults[i].repo) < ri
    /\ \A i \in 1..(Len(allResults) - 1) :
         \/ RepoIndex(allResults[i].repo) < RepoIndex(allResults[i + 1].repo)
         \/ /\ allResults[i].repo = allResults[i + 1].repo
            /\ allResults[i].issue_number < allResults[i + 1].issue_number
    /\ \A i \in 1..(Len(commentCalls) - 1) :
         \/ RepoIndex(commentCalls[i].repo) < RepoIndex(commentCalls[i + 1].repo)
         \/ /\ commentCalls[i].repo = commentCalls[i + 1].repo
            /\ commentCalls[i].issue_number < commentCalls[i + 1].issue_number
    /\ \A i \in DOMAIN commentCalls : RepoIndex(commentCalls[i].repo) <= ri
    /\ pc = "done" =>
         /\ Len(overallSummary) = Len(REPOS)
         /\ sink = Some([allResults |-> allResults,
                         overallSummary |-> overallSummary])

\* C9: the run is over with rows of the first and of a later repository
C9_Witness ==
    /\ pc = "done"
    /\ Len(allResults) >= 2
    /\ allResults[1].repo = REPOS[1].repo
    /\ Last(allResults).repo # REPOS[1].repo

(***************************************************************************)
(* getAllIssues.                                                           *)
(***************************************************************************)
\* the creation time lies before the first month of the date range
BeforeCutoff(iso) ==
    iso.y < FROM_YEAR \/ (iso.y = FROM_YEAR /\ iso.m - 1 < FROM_MONTH)

\* the candidate getAllIssues makes of a node
Candidate(node) ==
    [number     |-> node.number,
     title      |-> node.title,
     created_at |-> ParseDate(node.createdAt),
     author     |-> AuthorLogin(node)]

\* C1: once a page held an issue created before the cutoff, no further page
\* is requested, whatever that page's hasNextPage.
C1_StopsAtCutoff ==
    \A k \in DOMAIN pages :
        (\E i \in DOMAIN pages[k].nodes :
            BeforeCutoff(pages[k].nodes[i].createdAt))
        => Len(requests) <= k

\* C2: the candidates getAllIssues returns are exactly the issues served
\* that were created in or after the cutoff month, of whatever later year,
\* in the order served.
C2_KeepsFromCutoffOn ==
    pc = "forIssues" =>
        LET kept == SelectSeq(ServedNodes,
                              LAMBDA node : ~BeforeCutoff(node.createdAt))
        IN  issues = [i \in DOMAIN kept |-> Candidate(kept[i])]

\* the requests of a call that is over: the first with a null cursor, each
\* later one with the endCursor of the reply before, no cursor twice, every
\* request answered, and hasNextPage = false in the last reply only
PagedOnce ==
    /\ Len(requests) = Len(pages)
    /\ pages # << >>
    /\ \A k \in DOMAIN requests :
         requests[k] = IF k = 1 THEN Null ELSE pages[k - 1].pageInfo.endCursor
    /\ \A j, k \in DOMAIN requests : j # k => requests[j] # requests[k]
    /\ \A k \in DOMAIN pages :
         pages[k].pageInfo.hasNextPage <=> k < Len(pages)

\* C10: getAllIssues eventually returns, having requested one page at a
\* time, the first with a null cursor and each later one with the endCursor
\* of the reply before, no page twice and none after a reply with
\* hasNextPage = false.
C10_PagesOnceThenReturns == <>(pc = "forIssues" /\ PagedOnce)

\* C10: getAllIssues returned after three pages
C10_Witness ==
    /\ pc = "forIssues"
    /\ Len(requests) = 3
    /\ Len(ServedNodes) = 3

(***************************************************************************)
(* BusinessTimeCalculator and the row of one issue.                        *)
(***************************************************************************)
\* the Monday-Friday dates among the UTC dates from that of `start` to that
\* of `end`
BusinessDatesBetween(start, end) ==
    { d \in UTCDayIndex(start)..UTCDayIndex(end) : (d + 4) % 7 \notin { 0, 6 } }

\* C4: for start <= end, businessDaysBetween(start, end) is the number of
\* Monday-Friday UTC dates from the date of start to the date of end,
\* whatever the times of day.
C4_CountsCalendarDates ==
    probe # Null /\ "count" \in DOMAIN Val(probe) /\ Val(probe).start <= Val(probe).end
        => Val(probe).count
             = Cardinality(BusinessDatesBetween(Val(probe).start, Val(probe).end))

\* C3: in every row, first_response_time_hours is null exactly when
\* responded_in_48_business_hours is null.
C3_NullTogether ==
    probe # Null /\ "row" \in DOMAIN Val(probe)
        => (Val(probe).row.first_response_time_hours = Null
              <=> Val(probe).row.responded_in_48_business_hours = Null)

\* the positions of the comments of a maintainer other than the author
Qualifying(comments, author) ==
    { i \in DOMAIN comments :
        comments[i].user.login \in MAINTAINERS /\ comments[i].user.login # author }

\* C6: the row's response is that of the first comment, in the order
\* returned, of a maintainer other than the issue's author: the SLA flag is
\* "yes" iff businessDaysBetween(createdAt, that comment's time) <= 2 and
\* "no" otherwise, the hours recorded are those up to that comment, and with
\* no such comment both fields are null.
C6_FirstMaintainerResponse ==
    probe # Null /\ "row" \in DOMAIN Val(probe)
        => LET issue    == Val(probe).issue
               comments == Val(probe).comments
               row      == Val(probe).row
               q        == Qualifying(comments, issue.author)
           IN  IF q = { }
               THEN /\ row.first_response_time_hours = Null
                    /\ row.responded_in_48_business_hours = Null
               ELSE LET k  == CHOOSE i \in q : \A j \in q : i <= j
                        at == ParseDate(comments[k].created_at)
                    IN  /\ row.responded_in_48_business_hours
                             = Some(IF businessDaysBetween(issue.created_at, at) <= 2
                                    THEN "yes" ELSE "no")
                        /\ row.first_response_time_hours
                             \in { Null,
                                   Some(ToFixed2(at - issue.created_at,
                                                 MinutesPerHour)) }

\* C6: the author comments first and a maintainer answers three days after
\* the issue was made, on the fourth business day
C6_Witness ==
    /\ probe # Null
    /\ "row" \in DOMAIN Val(probe)
    /\ Len(Val(probe).comments) = 2
    /\ Val(probe).comments[1].user.login = Val(probe).issue.author
    /\ Val(probe).comments[2].user.login \in MAINTAINERS
    /\ Val(probe).row.responded_in_48_business_hours = Some("no")
    /\ Val(probe).row.first_response_time_hours = Some(7200)

====
